---- MODULE Spec2Model ----
(***************************************************************************)
(* Model of the Azure Communication Services Python sample                 *)
(* (samples/python/acs_sample.py): configuration resolution, the SMS,      *)
(* Email and Chat service wrappers with their result envelopes, the demo   *)
(* driver main(), and the test script samples/python/test_email.py.        *)
(*                                                                         *)
(* The vendor SDK (SmsClient, EmailClient, ChatClient, identity client,    *)
(* SecretClient) is the environment: every call into it either returns a   *)
(* value drawn from a small set or raises an Exception with a message      *)
(* drawn from a small set.  Every such call is appended to last.calls.     *)
(***************************************************************************)
EXTENDS Integers, Sequences, FiniteSets, TLC

VARIABLES
    entry,        \* who drives the program: "main" (the demo driver), "test_email" (the
                  \* test script), or a caller of one of the classes: "config", "sms", "email", "chat"
    pc,           \* position of main() or of test_email.py; "caller" for a caller of a class
    env,          \* os.environ, restricted to the three variables the program reads
    config,       \* the ACSConfiguration object, NoObject before construction
    sms,          \* the SMSService object
    email,        \* the EmailService object
    chat,         \* the ChatService object: [endpoint, identity_client, chat_client]
    user_result,  \* main()'s local variable user_result
    issued,       \* tokens returned so far by successful create_user_and_token calls
    nextId,       \* identity of the next ChatClient object to be constructed
    last,         \* the last call made: [op, args, result, results, raised, calls]
    script        \* test_email.py: [argv, connection_string, client]

vars == <<entry, pc, env, config, sms, email, chat, user_result, issued, nextId, last, script>>

-----------------------------------------------------------------------------
(* Bounds *)

MaxRecipients == 3

MaxAvailable == 3

MaxInits == 2

-----------------------------------------------------------------------------
(* Python values *)

\* Python's None
None == "<None>"

\* Python's None where the model holds an object (a record) rather than a string
Nothing == [none |-> TRUE]

\* a name not yet bound to an object
NoObject == [constructed |-> FALSE]

\* bool(x) for an Optional[str]: None and "" are falsy
Truthy(x) == x # None /\ x # ""

\* a returned value that is not an envelope (None, or nothing because of a raise)
NoResult == [returned |-> None]

\* an SDK call that returned value v
Returned(v) == [kind |-> "return", value |-> v]

\* an SDK call that raised Exception(msg)
Raised(msg) == [kind |-> "raise", error |-> msg]

\* an SDK call that is never reached because an earlier one raised
NotCalled == [kind |-> "not called"]

\* one entry of the call log
Call(api, arg, outcome) == [api |-> api, arg |-> arg, outcome |-> outcome]

\* str(e) of the exceptions the SDK raises
Errors == {"service unavailable", ""}

RaiseOutcomes == {Raised(e) : e \in Errors}

\* the record of a call
Last(o, a, r, rs, ex, cs) == [op |-> o, args |-> a, result |-> r, results |-> rs, raised |-> ex, calls |-> cs]

NoArgs == [none |-> TRUE]

-----------------------------------------------------------------------------
(* ACSConfiguration *)

EnvConnectionStrings == {None, "", "endpoint=https://x;accesskey=y", "endpoint=https://z;accesskey=w"}

EnvEndpoints == {None, "", "https://x"}

EnvKeyVaultUrls == {None, "", "https://kv"}

Environments == [ACS_CONNECTION_STRING : EnvConnectionStrings, ACS_ENDPOINT : EnvEndpoints, KEY_VAULT_URL : EnvKeyVaultUrls]

NoEnvironment == [ACS_CONNECTION_STRING |-> None, ACS_ENDPOINT |-> None, KEY_VAULT_URL |-> None]

\* what the secret store does: the step that fails (or "none") and the two secret values
VaultFailures == {"none", "credential", "client", "acs-connection-string", "acs-endpoint"}

VaultValues == {"vault-secret"}

Vaults == [fails : VaultFailures, connection_string : VaultValues \cup {None}, endpoint : VaultValues]

VaultOutcome(vault, step, value) == IF vault.fails = step THEN Raised("vault unavailable") ELSE Returned(value)

\* the calls _load_from_key_vault makes, in order, up to and including the one that raises
VaultCalls(key_vault_url, vault) ==
    LET all == << Call("DefaultAzureCredential", NoArgs, VaultOutcome(vault, "credential", "credential")),
                  Call("SecretClient", [vault_url |-> key_vault_url], VaultOutcome(vault, "client", "secret_client")),
                  Call("get_secret", [name |-> "acs-connection-string"], VaultOutcome(vault, "acs-connection-string", vault.connection_string)),
                  Call("get_secret", [name |-> "acs-endpoint"], VaultOutcome(vault, "acs-endpoint", vault.endpoint)) >>
        n == CASE vault.fails = "credential" -> 1
               [] vault.fails = "client" -> 2
               [] vault.fails = "acs-connection-string" -> 3
               [] OTHER -> 4
    IN  SubSeq(all, 1, n)

\* _load_from_key_vault: the fields are assigned one by one inside the try,
\* the except clause prints a warning and restores nothing
_load_from_key_vault(self, key_vault_url, vault) ==
    LET calls == VaultCalls(key_vault_url, vault)
        n == Len(calls)
        cs == IF n >= 3 /\ calls[3].outcome.kind = "return" THEN calls[3].outcome.value ELSE self.connection_string
        ep == IF n >= 4 /\ calls[4].outcome.kind = "return" THEN calls[4].outcome.value ELSE self.endpoint
    IN  [connection_string |-> cs, endpoint |-> ep, calls |-> calls]

\* _load_configuration going to Key Vault whenever KEY_VAULT_URL is set
_load_configuration_VaultFirst(environ, vault) ==
    LET self == [connection_string |-> environ.ACS_CONNECTION_STRING, endpoint |-> environ.ACS_ENDPOINT, calls |-> <<>>]
    IN  IF Truthy(environ.KEY_VAULT_URL)
        THEN _load_from_key_vault(self, environ.KEY_VAULT_URL, vault)
        ELSE self

\* _load_configuration reading ACS_ENDPOINT only when the connection string was found
_load_configuration_EndpointWithSecret(environ, vault) ==
    LET found == Truthy(environ.ACS_CONNECTION_STRING)
        self == [connection_string |-> environ.ACS_CONNECTION_STRING,
                 endpoint |-> IF found THEN environ.ACS_ENDPOINT ELSE None, calls |-> <<>>]
    IN  IF ~found
        THEN IF Truthy(environ.KEY_VAULT_URL)
             THEN _load_from_key_vault(self, environ.KEY_VAULT_URL, vault)
             ELSE self
        ELSE self

\* _load_configuration: environment first, Key Vault only when the connection string is falsy
_load_configuration(environ, vault) ==
    LET self == [connection_string |-> environ.ACS_CONNECTION_STRING, endpoint |-> environ.ACS_ENDPOINT, calls |-> <<>>]
    IN  IF ~Truthy(self.connection_string)
        THEN IF Truthy(environ.KEY_VAULT_URL)
             THEN _load_from_key_vault(self, environ.KEY_VAULT_URL, vault)
             ELSE self
        ELSE self

\* ACSConfiguration(): constructs the object; no exception leaves the constructor
ACSConfiguration(vault) ==
    LET loaded == _load_configuration(env, vault)
    IN  /\ config' = [connection_string |-> loaded.connection_string, endpoint |-> loaded.endpoint]
        /\ last' = Last("ACSConfiguration", NoArgs, NoResult, <<>>, FALSE, loaded.calls)

-----------------------------------------------------------------------------
(* SMSService *)

ConnectionString == "endpoint=https://x;accesskey=y"

FromNumber == "+14255550123"

Numbers == {"+14255550124", "+14255550125"}

Tags == {None, "promo"}

\* SmsClient.from_connection_string: returns a client or raises
ClientOutcomes(client) == {Returned(client)} \cup RaiseOutcomes

\* SMSService.__init__: the object exists only if the constructor returns
SMSService(connection_string, outcome) ==
    /\ sms' = IF outcome.kind = "return" THEN [client |-> outcome.value] ELSE sms
    /\ last' = Last("SMSService", [connection_string |-> connection_string], NoResult, <<>>, outcome.kind = "raise",
                    << Call("SmsClient.from_connection_string", [connection_string |-> connection_string], outcome) >>)

\* what client.send can do: a response object with the four attributes the
\* wrapper reads, an object without them (the attribute access then raises
\* AttributeError inside the try), or an exception
SmsResponses(to_number) ==
    { [message_id |-> "sms-1", to |-> to_number, http_status_code |-> 202, successful |-> TRUE],
      [message_id |-> None, to |-> to_number, http_status_code |-> 400, successful |-> FALSE],
      [items |-> "list"] }

SmsOutcomes(to_number) == {Returned(r) : r \in SmsResponses(to_number)} \cup RaiseOutcomes

\* str(e) of the AttributeError raised by reading attr of an object of the named type
AttributeError(type, attr) == "'" \o type \o "' object has no attribute '" \o attr \o "'"

\* send_sms with the except branch returning the text under 'message' instead of 'error'
send_sms_MessageKey(from_number, to_number, message, enable_delivery_report, tag, outcome) ==
    LET call == Call("SmsClient.send",
                     [from_ |-> from_number, to |-> to_number, message |-> message,
                      enable_delivery_report |-> enable_delivery_report, tag |-> tag], outcome)
        response == outcome.value
        result == IF outcome.kind = "raise"
                  THEN [success |-> FALSE, message |-> outcome.error]
                  ELSE IF "message_id" \notin DOMAIN response
                  THEN [success |-> FALSE, message |-> AttributeError("list", "message_id")]
                  ELSE [success |-> TRUE,
                        message_id |-> response.message_id,
                        to |-> response.to,
                        http_status_code |-> response.http_status_code,
                        successful |-> response.successful]
    IN  [result |-> result, calls |-> <<call>>]

\* SMSService.send_sms: one client.send inside try/except Exception
send_sms(from_number, to_number, message, enable_delivery_report, tag, outcome) ==
    LET call == Call("SmsClient.send",
                     [from_ |-> from_number, to |-> to_number, message |-> message,
                      enable_delivery_report |-> enable_delivery_report, tag |-> tag], outcome)
        response == outcome.value
        result == IF outcome.kind = "raise"
                  THEN [success |-> FALSE, error |-> outcome.error]
                  ELSE IF "message_id" \notin DOMAIN response
                  THEN [success |-> FALSE, error |-> AttributeError("list", "message_id")]
                  ELSE [success |-> TRUE,
                        message_id |-> response.message_id,
                        to |-> response.to,
                        http_status_code |-> response.http_status_code,
                        successful |-> response.successful]
    IN  [result |-> result, calls |-> <<call>>]

\* the loop of send_bulk_sms leaving at the first failed send
RECURSIVE send_bulk_sms_loop_StopOnFailure(_, _, _, _, _, _)
send_bulk_sms_loop_StopOnFailure(from_number, to_numbers, message, enable_delivery_report, outcomes, acc) ==
    LET i == Len(acc.results) + 1
    IN  IF i > Len(to_numbers)
        THEN acc
        ELSE LET r == send_sms(from_number, to_numbers[i], message, enable_delivery_report, None, outcomes[i])
                 next == [results |-> Append(acc.results, r.result), calls |-> acc.calls \o r.calls]
             IN  IF r.result.success
                 THEN send_bulk_sms_loop_StopOnFailure(from_number, to_numbers, message, enable_delivery_report, outcomes, next)
                 ELSE next

\* the loop of send_bulk_sms sending once more to a recipient whose send failed
RECURSIVE send_bulk_sms_loop_RetryOnce(_, _, _, _, _, _)
send_bulk_sms_loop_RetryOnce(from_number, to_numbers, message, enable_delivery_report, outcomes, acc) ==
    LET i == Len(acc.results) + 1
    IN  IF i > Len(to_numbers)
        THEN acc
        ELSE LET r == send_sms(from_number, to_numbers[i], message, enable_delivery_report, None, outcomes[i])
                 again == send_sms(from_number, to_numbers[i], message, enable_delivery_report, None, outcomes[i])
                 next == IF r.result.success
                         THEN [results |-> Append(acc.results, r.result), calls |-> acc.calls \o r.calls]
                         ELSE [results |-> Append(acc.results, again.result), calls |-> acc.calls \o r.calls \o again.calls]
             IN  send_bulk_sms_loop_RetryOnce(from_number, to_numbers, message, enable_delivery_report, outcomes, next)

\* the for loop of send_bulk_sms, acc = the results and calls so far
RECURSIVE send_bulk_sms_loop(_, _, _, _, _, _)
send_bulk_sms_loop(from_number, to_numbers, message, enable_delivery_report, outcomes, acc) ==
    LET i == Len(acc.results) + 1
    IN  IF i > Len(to_numbers)
        THEN acc
        ELSE LET r == send_sms(from_number, to_numbers[i], message, enable_delivery_report, None, outcomes[i])
             IN  send_bulk_sms_loop(from_number, to_numbers, message, enable_delivery_report, outcomes,
                                    [results |-> Append(acc.results, r.result), calls |-> acc.calls \o r.calls])

\* SMSService.send_bulk_sms
send_bulk_sms(from_number, to_numbers, message, enable_delivery_report, outcomes) ==
    send_bulk_sms_loop(from_number, to_numbers, message, enable_delivery_report, outcomes,
                       [results |-> <<>>, calls |-> <<>>])

RecipientLists == UNION {[1..n -> Numbers] : n \in 0..MaxRecipients}

\* the transport outcomes drawn for a bulk send: accepted, or an exception
BulkKinds == {"accepted", "raise"}

BulkOutcome(kind, to_number) ==
    IF kind = "accepted"
    THEN Returned([message_id |-> "sms-1", to |-> to_number, http_status_code |-> 202, successful |-> TRUE])
    ELSE Raised("service unavailable")

-----------------------------------------------------------------------------
(* A caller of the SMSService class *)

SmsConstruct ==
    /\ entry = "sms"
    /\ sms = NoObject
    /\ \E outcome \in ClientOutcomes("SmsClient") : SMSService(ConnectionString, outcome)
    /\ UNCHANGED <<script, entry, pc, env, config, email, chat, user_result, issued, nextId>>

SmsSend ==
    /\ entry = "sms"
    /\ sms # NoObject
    /\ \E to_number \in Numbers, edr \in BOOLEAN, tag \in Tags :
         \E outcome \in SmsOutcomes(to_number) :
            LET r == send_sms(FromNumber, to_number, "Hello", edr, tag, outcome)
            IN  last' = Last("send_sms", [to_number |-> to_number], r.result, <<>>, FALSE, r.calls)
    /\ UNCHANGED <<script, entry, pc, env, config, sms, email, chat, user_result, issued, nextId>>

SmsSendBulk ==
    /\ entry = "sms"
    /\ sms # NoObject
    /\ \E to_numbers \in RecipientLists, edr \in BOOLEAN :
         \E kinds \in [1..Len(to_numbers) -> BulkKinds] :
            LET outcomes == [i \in 1..Len(to_numbers) |-> BulkOutcome(kinds[i], to_numbers[i])]
                r == send_bulk_sms(FromNumber, to_numbers, "Hello", edr, outcomes)
            IN  last' = Last("send_bulk_sms", [to_numbers |-> to_numbers, outcomes |-> outcomes], NoResult, r.results, FALSE, r.calls)
    /\ UNCHANGED <<script, entry, pc, env, config, sms, email, chat, user_result, issued, nextId>>

-----------------------------------------------------------------------------
(* EmailService *)

SenderAddress == "DoNotReply@x.azurecomm.net"

RecipientAddress == "user@example.com"

\* an Optional[list[str]] argument: None and [] are both falsy and are both written <<>>
AddressLists == {<<>>, <<"cc@example.com">>}

ReplyTos == {None, "reply@example.com"}

\* EmailService.__init__
EmailService(connection_string, outcome) ==
    /\ email' = IF outcome.kind = "return" THEN [client |-> outcome.value] ELSE email
    /\ last' = Last("EmailService", [connection_string |-> connection_string], NoResult, <<>>, outcome.kind = "raise",
                    << Call("EmailClient.from_connection_string", [connection_string |-> connection_string], outcome) >>)

\* what begin_send and poller.result() can do: begin_send raises, result()
\* raises, or result() returns an object with or without the attributes read
EmailResults ==
    { [id |-> "em-1", status |-> "Succeeded"],
      [id |-> "em-2", status |-> "Failed"],
      [keys |-> "dict"] }

EmailOutcomes ==
    {[begin_send |-> b, result |-> NotCalled] : b \in RaiseOutcomes}
      \cup {[begin_send |-> Returned("poller"), result |-> r] : r \in RaiseOutcomes \cup {Returned(x) : x \in EmailResults}}

Addresses(list) == [i \in 1..Len(list) |-> [address |-> list[i]]]

\* the message dictionary send_email builds
EmailMessage(sender_address, recipient_address, subject, body, is_html, cc, bcc, reply_to) ==
    LET content == IF is_html THEN [subject |-> subject, html |-> body] ELSE [subject |-> subject, plainText |-> body]
        to == [to |-> <<[address |-> recipient_address]>>]
        with_cc == IF cc # <<>> THEN to @@ [cc |-> Addresses(cc)] ELSE to
        recipients == IF bcc # <<>> THEN with_cc @@ [bcc |-> Addresses(bcc)] ELSE with_cc
        message == [senderAddress |-> sender_address, recipients |-> recipients, content |-> content]
    IN  IF Truthy(reply_to) THEN message @@ [replyTo |-> <<[address |-> reply_to]>>] ELSE message

\* EmailService.send_email: build the message, begin_send, poller.result(), all inside try/except Exception
send_email(sender_address, recipient_address, subject, body, is_html, cc, bcc, reply_to, outcome) ==
    LET message == EmailMessage(sender_address, recipient_address, subject, body, is_html, cc, bcc, reply_to)
        begin == Call("EmailClient.begin_send", message, outcome.begin_send)
        poll == Call("poller.result", NoArgs, outcome.result)
    IN  IF outcome.begin_send.kind = "raise"
        THEN [result |-> [success |-> FALSE, error |-> outcome.begin_send.error], calls |-> <<begin>>]
        ELSE IF outcome.result.kind = "raise"
        THEN [result |-> [success |-> FALSE, error |-> outcome.result.error], calls |-> <<begin, poll>>]
        ELSE IF "id" \notin DOMAIN outcome.result.value
        THEN [result |-> [success |-> FALSE, error |-> AttributeError("dict", "id")], calls |-> <<begin, poll>>]
        ELSE [result |-> [success |-> TRUE, message_id |-> outcome.result.value.id, status |-> outcome.result.value.status],
              calls |-> <<begin, poll>>]

\* EmailService.send_html_email
send_html_email(sender_address, recipient_address, subject, html_body, outcome) ==
    send_email(sender_address, recipient_address, subject, html_body, TRUE, <<>>, <<>>, None, outcome)

-----------------------------------------------------------------------------
(* A caller of the EmailService class *)

EmailConstruct ==
    /\ entry = "email"
    /\ email = NoObject
    /\ \E outcome \in ClientOutcomes("EmailClient") : EmailService(ConnectionString, outcome)
    /\ UNCHANGED <<script, entry, pc, env, config, sms, chat, user_result, issued, nextId>>

EmailSend ==
    /\ entry = "email"
    /\ email # NoObject
    /\ \E is_html \in BOOLEAN, cc \in AddressLists, bcc \in AddressLists, reply_to \in ReplyTos, outcome \in EmailOutcomes :
            LET r == send_email(SenderAddress, RecipientAddress, "Welcome!", "Hello", is_html, cc, bcc, reply_to, outcome)
            IN  last' = Last("send_email", [is_html |-> is_html], r.result, <<>>, FALSE, r.calls)
    /\ UNCHANGED <<script, entry, pc, env, config, sms, email, chat, user_result, issued, nextId>>

EmailSendHtml ==
    /\ entry = "email"
    /\ email # NoObject
    /\ \E outcome \in EmailOutcomes :
            LET r == send_html_email(SenderAddress, RecipientAddress, "Welcome!", "<p>Hello</p>", outcome)
            IN  last' = Last("send_html_email", NoArgs, r.result, <<>>, FALSE, r.calls)
    /\ UNCHANGED <<script, entry, pc, env, config, sms, email, chat, user_result, issued, nextId>>

-----------------------------------------------------------------------------
(* ChatService *)

Endpoint == "https://x"

\* tokens the identity service issues
Tokens == {"token-1"}

\* tokens a caller can pass to initialize_chat_client
AccessTokens == Tokens \cup {"token-from-elsewhere"}

\* datetime values and datetime.isoformat()
Datetimes == {[day |-> 1], [day |-> 2]}

isoformat(dt) == IF dt.day = 1 THEN "2024-01-01T00:00:00" ELSE "2024-01-02T00:00:00"

\* self.chat_client = None
NoClient == Nothing

\* ChatService.__init__
ChatService(endpoint, connection_string, outcome) ==
    /\ chat' = IF outcome.kind = "return"
               THEN [endpoint |-> endpoint, identity_client |-> outcome.value, chat_client |-> NoClient]
               ELSE chat
    /\ last' = Last("ChatService", [endpoint |-> endpoint, connection_string |-> connection_string], NoResult, <<>>,
                    outcome.kind = "raise",
                    << Call("CommunicationIdentityClient.from_connection_string", [connection_string |-> connection_string], outcome) >>)

\* what identity_client.create_user_and_token can do: raise, or return a
\* (user, token_response) pair; the pair may lack what the wrapper reads
UserAndTokens ==
    {[user |-> [properties |-> [id |-> "8:acs:user-1"]], token_response |-> [token |-> t, expires_on |-> d]] :
        t \in Tokens, d \in {[day |-> 1], Nothing}}
      \cup {[user |-> [properties |-> [rawId |-> "8:acs:user-1"]], token_response |-> [token |-> t, expires_on |-> [day |-> 1]]] :
        t \in Tokens}

CreateUserOutcomes == {Returned(x) : x \in UserAndTokens} \cup RaiseOutcomes

\* ChatService.create_user_and_token
create_user_and_token(self, outcome) ==
    LET call == Call("CommunicationIdentityClient.create_user_and_token", [scopes |-> <<"chat">>], outcome)
        user == outcome.value.user
        token_response == outcome.value.token_response
        result == IF outcome.kind = "raise"
                  THEN [success |-> FALSE, error |-> outcome.error]
                  ELSE IF "id" \notin DOMAIN user.properties
                  THEN [success |-> FALSE, error |-> "'id'"]
                  ELSE IF token_response.expires_on = Nothing
                  THEN [success |-> FALSE, error |-> AttributeError("NoneType", "isoformat")]
                  ELSE [success |-> TRUE,
                        user_id |-> user.properties.id,
                        token |-> token_response.token,
                        expires_on |-> isoformat(token_response.expires_on)]
    IN  [self |-> self, result |-> result, calls |-> <<call>>]

\* what the two constructors in initialize_chat_client can do
InitOutcomes ==
    {[credential |-> c, client |-> NotCalled] : c \in RaiseOutcomes}
      \cup {[credential |-> Returned("credential"), client |-> c] : c \in ClientOutcomes("ChatClient")}

\* initialize_chat_client dropping the old client before it builds the new one
initialize_chat_client_ResetFirst(self, access_token, id, outcome) ==
    LET credential == Call("CommunicationTokenCredential", [token |-> access_token], outcome.credential)
        client == Call("ChatClient", [endpoint |-> self.endpoint], outcome.client)
        reset == [self EXCEPT !.chat_client = NoClient]
    IN  IF outcome.credential.kind = "raise"
        THEN [self |-> reset, raised |-> TRUE, calls |-> <<credential>>]
        ELSE IF outcome.client.kind = "raise"
        THEN [self |-> reset, raised |-> TRUE, calls |-> <<credential, client>>]
        ELSE [self |-> [self EXCEPT !.chat_client = [id |-> id, endpoint |-> self.endpoint, token |-> access_token]],
              raised |-> FALSE, calls |-> <<credential, client>>]

\* ChatService.initialize_chat_client: no try/except; self.chat_client is
\* assigned the new ChatClient object (identity id) only if both constructors return
initialize_chat_client(self, access_token, id, outcome) ==
    LET credential == Call("CommunicationTokenCredential", [token |-> access_token], outcome.credential)
        client == Call("ChatClient", [endpoint |-> self.endpoint], outcome.client)
    IN  IF outcome.credential.kind = "raise"
        THEN [self |-> self, raised |-> TRUE, calls |-> <<credential>>]
        ELSE IF outcome.client.kind = "raise"
        THEN [self |-> self, raised |-> TRUE, calls |-> <<credential, client>>]
        ELSE [self |-> [self EXCEPT !.chat_client = [id |-> id, endpoint |-> self.endpoint, token |-> access_token]],
              raised |-> FALSE, calls |-> <<credential, client>>]

\* the envelope of the guard `if not self.chat_client`
NotInitialized == [success |-> FALSE, error |-> "Chat client not initialized"]

ParticipantLists == {<<>>, <<"8:acs:user-1">>, <<"8:acs:user-1", "8:acs:user-2">>}

\* the ChatParticipant list create_chat_thread builds
Participants(participant_ids) ==
    [i \in 1..Len(participant_ids) |-> [identifier |-> participant_ids[i], display_name |-> "User-" \o ToString(i)]]

\* what chat_client.create_chat_thread can do
ThreadResults(topic) ==
    {[chat_thread |-> [id |-> "thread-1", topic |-> topic, created_on |-> d]] : d \in {[day |-> 2], Nothing}}

CreateThreadOutcomes(topic) == {Returned(x) : x \in ThreadResults(topic)} \cup RaiseOutcomes

\* create_chat_thread without the guard: the call on None raises inside the try
create_chat_thread_NoGuard(self, topic, participant_ids, outcome) ==
    IF self.chat_client = NoClient
    THEN [self |-> self, result |-> [success |-> FALSE, error |-> AttributeError("NoneType", "create_chat_thread")], calls |-> <<>>]
    ELSE LET call == Call("ChatClient.create_chat_thread",
                          [client |-> self.chat_client.id, topic |-> topic, thread_participants |-> Participants(participant_ids)],
                          outcome)
             thread == outcome.value.chat_thread
             result == IF outcome.kind = "raise"
                       THEN [success |-> FALSE, error |-> outcome.error]
                       ELSE IF thread.created_on = Nothing
                       THEN [success |-> FALSE, error |-> AttributeError("NoneType", "isoformat")]
                       ELSE [success |-> TRUE,
                             thread_id |-> thread.id,
                             topic |-> thread.topic,
                             created_on |-> isoformat(thread.created_on)]
         IN  [self |-> self, result |-> result, calls |-> <<call>>]

\* ChatService.create_chat_thread
create_chat_thread(self, topic, participant_ids, outcome) ==
    IF self.chat_client = NoClient
    THEN [self |-> self, result |-> NotInitialized, calls |-> <<>>]
    ELSE LET call == Call("ChatClient.create_chat_thread",
                          [client |-> self.chat_client.id, topic |-> topic, thread_participants |-> Participants(participant_ids)],
                          outcome)
             thread == outcome.value.chat_thread
             result == IF outcome.kind = "raise"
                       THEN [success |-> FALSE, error |-> outcome.error]
                       ELSE IF thread.created_on = Nothing
                       THEN [success |-> FALSE, error |-> AttributeError("NoneType", "isoformat")]
                       ELSE [success |-> TRUE,
                             thread_id |-> thread.id,
                             topic |-> thread.topic,
                             created_on |-> isoformat(thread.created_on)]
         IN  [self |-> self, result |-> result, calls |-> <<call>>]

ThreadId == "thread-1"

\* what get_chat_thread_client and thread_client.send_message can do
SendMessageOutcomes ==
    {[thread_client |-> t, send |-> NotCalled] : t \in RaiseOutcomes}
      \cup {[thread_client |-> Returned("thread_client"), send |-> r] :
              r \in RaiseOutcomes \cup {Returned([id |-> "msg-9"]), Returned([keys |-> "dict"])}}

\* send_message building a new client when the thread client cannot be obtained
send_message_Reconnect(self, thread_id, content, sender_display_name, outcome, now) ==
    IF self.chat_client = NoClient
    THEN [self |-> self, result |-> NotInitialized, calls |-> <<>>]
    ELSE LET get == Call("ChatClient.get_chat_thread_client", [client |-> self.chat_client.id, thread_id |-> thread_id],
                         outcome.thread_client)
             send == Call("ChatThreadClient.send_message",
                          [content |-> content, sender_display_name |-> sender_display_name, chat_message_type |-> "text"],
                          outcome.send)
         IN  IF outcome.thread_client.kind = "raise"
             THEN [self |-> [self EXCEPT !.chat_client.id = 0],
                   result |-> [success |-> FALSE, error |-> outcome.thread_client.error], calls |-> <<get>>]
             ELSE IF outcome.send.kind = "raise"
             THEN [self |-> self, result |-> [success |-> FALSE, error |-> outcome.send.error], calls |-> <<get, send>>]
             ELSE IF "id" \notin DOMAIN outcome.send.value
             THEN [self |-> self, result |-> [success |-> FALSE, error |-> AttributeError("dict", "id")], calls |-> <<get, send>>]
             ELSE [self |-> self,
                   result |-> [success |-> TRUE, message_id |-> outcome.send.value.id, sent_at |-> isoformat(now)],
                   calls |-> <<get, send>>]

\* ChatService.send_message; now is datetime.utcnow()
send_message(self, thread_id, content, sender_display_name, outcome, now) ==
    IF self.chat_client = NoClient
    THEN [self |-> self, result |-> NotInitialized, calls |-> <<>>]
    ELSE LET get == Call("ChatClient.get_chat_thread_client", [client |-> self.chat_client.id, thread_id |-> thread_id],
                         outcome.thread_client)
             send == Call("ChatThreadClient.send_message",
                          [content |-> content, sender_display_name |-> sender_display_name, chat_message_type |-> "text"],
                          outcome.send)
         IN  IF outcome.thread_client.kind = "raise"
             THEN [self |-> self, result |-> [success |-> FALSE, error |-> outcome.thread_client.error], calls |-> <<get>>]
             ELSE IF outcome.send.kind = "raise"
             THEN [self |-> self, result |-> [success |-> FALSE, error |-> outcome.send.error], calls |-> <<get, send>>]
             ELSE IF "id" \notin DOMAIN outcome.send.value
             THEN [self |-> self, result |-> [success |-> FALSE, error |-> AttributeError("dict", "id")], calls |-> <<get, send>>]
             ELSE [self |-> self, result |-> [success |-> TRUE, message_id |-> outcome.send.value.id, sent_at |-> isoformat(now)],
                   calls |-> <<get, send>>]

\* the messages list_messages() can yield; the optional attributes are set or None
MessageKinds == {"full", "bare"}

ChatMessage(i, kind) ==
    IF kind = "full"
    THEN [id |-> "msg-" \o ToString(i), type |-> "text", content |-> [message |-> "hello " \o ToString(i)],
          sender_communication_identifier |-> [properties |-> [id |-> "8:acs:user-1"]], created_on |-> [day |-> 1]]
    ELSE [id |-> "msg-" \o ToString(i), type |-> "participantAdded", content |-> Nothing,
          sender_communication_identifier |-> Nothing, created_on |-> Nothing]

\* the sequences drawn: every length up to MaxAvailable, the kinds alternating from either kind
AvailableLists ==
    {[i \in 1..k |-> ChatMessage(i, IF i % 2 = 1 THEN first ELSE CHOOSE other \in MessageKinds : other # first)] :
        k \in 0..MaxAvailable, first \in MessageKinds}

\* the dictionary get_messages builds from one message
MessageDict(message) ==
    [id |-> message.id,
     type |-> message.type,
     content |-> IF message.content # Nothing THEN message.content.message ELSE None,
     sender_id |-> IF message.sender_communication_identifier # Nothing
                   THEN IF "id" \in DOMAIN message.sender_communication_identifier.properties
                        THEN message.sender_communication_identifier.properties.id
                        ELSE None
                   ELSE None,
     created_on |-> IF message.created_on # Nothing THEN isoformat(message.created_on) ELSE None]

\* what the collaborator does during get_messages: get_chat_thread_client and
\* list_messages return or raise; the lazy sequence holds `available` and
\* raises when its fail_at-th element is requested (0: it never raises)
GetMessagesOutcomes ==
    {[thread_client |-> t, list_messages |-> NotCalled, available |-> <<>>, fail_at |-> 0] : t \in RaiseOutcomes}
      \cup {[thread_client |-> Returned("thread_client"), list_messages |-> l, available |-> <<>>, fail_at |-> 0] : l \in RaiseOutcomes}
      \cup UNION {{[thread_client |-> Returned("thread_client"), list_messages |-> Returned("ItemPaged"),
                    available |-> a, fail_at |-> f] : f \in 0..(Len(a) + 1)} : a \in AvailableLists}

\* the loop of get_messages comparing with > instead of >=
RECURSIVE get_messages_loop_OffByOne(_, _, _, _, _)
get_messages_loop_OffByOne(available, fail_at, max_messages, i, acc) ==
    IF i = fail_at
    THEN [acc EXCEPT !.calls = Append(@, Call("ItemPaged.next", [index |-> i], Raised("page request failed"))),
                     !.error = "page request failed"]
    ELSE IF i > Len(available)
    THEN [acc EXCEPT !.calls = Append(@, Call("ItemPaged.next", [index |-> i], Returned("StopIteration")))]
    ELSE LET fetched == [acc EXCEPT !.calls = Append(@, Call("ItemPaged.next", [index |-> i], Returned(available[i].id)))]
         IN  IF Len(acc.messages) > max_messages
             THEN fetched
             ELSE get_messages_loop_OffByOne(available, fail_at, max_messages, i + 1,
                                             [fetched EXCEPT !.messages = Append(@, MessageDict(available[i]))])

\* the for loop of get_messages: i is the element requested next,
\* acc = [messages, calls, error] so far
RECURSIVE get_messages_loop(_, _, _, _, _)
get_messages_loop(available, fail_at, max_messages, i, acc) ==
    IF i = fail_at
    THEN [acc EXCEPT !.calls = Append(@, Call("ItemPaged.next", [index |-> i], Raised("page request failed"))),
                     !.error = "page request failed"]
    ELSE IF i > Len(available)
    THEN [acc EXCEPT !.calls = Append(@, Call("ItemPaged.next", [index |-> i], Returned("StopIteration")))]
    ELSE LET fetched == [acc EXCEPT !.calls = Append(@, Call("ItemPaged.next", [index |-> i], Returned(available[i].id)))]
         IN  IF Len(acc.messages) >= max_messages
             THEN fetched
             ELSE get_messages_loop(available, fail_at, max_messages, i + 1,
                                    [fetched EXCEPT !.messages = Append(@, MessageDict(available[i]))])

\* ChatService.get_messages
get_messages(self, thread_id, max_messages, outcome) ==
    IF self.chat_client = NoClient
    THEN [self |-> self, result |-> NotInitialized, calls |-> <<>>]
    ELSE LET get == Call("ChatClient.get_chat_thread_client", [client |-> self.chat_client.id, thread_id |-> thread_id],
                         outcome.thread_client)
             list == Call("ChatThreadClient.list_messages", NoArgs, outcome.list_messages)
             loop == get_messages_loop(outcome.available, outcome.fail_at, max_messages, 1,
                                       [messages |-> <<>>, calls |-> <<get, list>>, error |-> None])
         IN  IF outcome.thread_client.kind = "raise"
             THEN [self |-> self, result |-> [success |-> FALSE, error |-> outcome.thread_client.error], calls |-> <<get>>]
             ELSE IF outcome.list_messages.kind = "raise"
             THEN [self |-> self, result |-> [success |-> FALSE, error |-> outcome.list_messages.error], calls |-> <<get, list>>]
             ELSE IF loop.error # None
             THEN [self |-> self, result |-> [success |-> FALSE, error |-> loop.error], calls |-> loop.calls]
             ELSE [self |-> self, result |-> [success |-> TRUE, messages |-> loop.messages, count |-> Len(loop.messages)],
                   calls |-> loop.calls]

\* the values of max_messages drawn
MaxMessages == 0..(MaxAvailable + 1)

-----------------------------------------------------------------------------
(* A caller of the ChatService class *)

ChatConstruct ==
    /\ entry = "chat"
    /\ chat = NoObject
    /\ \E outcome \in ClientOutcomes("CommunicationIdentityClient") : ChatService(Endpoint, ConnectionString, outcome)
    /\ UNCHANGED <<script, entry, pc, env, config, sms, email, user_result, issued, nextId>>

ChatCreateUserAndToken ==
    /\ entry = "chat"
    /\ chat # NoObject
    /\ \E outcome \in CreateUserOutcomes :
         LET r == create_user_and_token(chat, outcome)
         IN  /\ chat' = r.self
             /\ last' = Last("create_user_and_token", NoArgs, r.result, <<>>, FALSE, r.calls)
             /\ issued' = IF r.result.success THEN issued \cup {r.result.token} ELSE issued
    /\ UNCHANGED <<script, entry, pc, env, config, sms, email, user_result, nextId>>

ChatInitializeChatClient ==
    /\ entry = "chat"
    /\ chat # NoObject
    /\ nextId <= MaxInits
    /\ \E access_token \in AccessTokens, outcome \in InitOutcomes :
         LET r == initialize_chat_client(chat, access_token, nextId, outcome)
         IN  /\ chat' = r.self
             /\ nextId' = IF r.raised THEN nextId ELSE nextId + 1
             /\ last' = Last("initialize_chat_client", [access_token |-> access_token], NoResult, <<>>, r.raised, r.calls)
    /\ UNCHANGED <<script, entry, pc, env, config, sms, email, user_result, issued>>

ChatCreateChatThread ==
    /\ entry = "chat"
    /\ chat # NoObject
    /\ \E participant_ids \in ParticipantLists, outcome \in CreateThreadOutcomes("Support") :
         LET r == create_chat_thread(chat, "Support", participant_ids, outcome)
         IN  /\ chat' = r.self
             /\ last' = Last("create_chat_thread", [participant_ids |-> participant_ids], r.result, <<>>, FALSE, r.calls)
    /\ UNCHANGED <<script, entry, pc, env, config, sms, email, user_result, issued, nextId>>

ChatSendMessage ==
    /\ entry = "chat"
    /\ chat # NoObject
    /\ \E outcome \in SendMessageOutcomes, now \in Datetimes :
         LET r == send_message(chat, ThreadId, "Hello", "User", outcome, now)
         IN  /\ chat' = r.self
             /\ last' = Last("send_message", NoArgs, r.result, <<>>, FALSE, r.calls)
    /\ UNCHANGED <<script, entry, pc, env, config, sms, email, user_result, issued, nextId>>

ChatGetMessages ==
    /\ entry = "chat"
    /\ chat # NoObject
    /\ \E max_messages \in MaxMessages, outcome \in GetMessagesOutcomes :
         LET r == get_messages(chat, ThreadId, max_messages, outcome)
         IN  /\ chat' = r.self
             /\ last' = Last("get_messages",
                          [max_messages |-> max_messages, available |-> outcome.available, fail_at |-> outcome.fail_at,
                           iterable |-> outcome.list_messages.kind = "return"],
                          r.result, <<>>, FALSE, r.calls)
    /\ UNCHANGED <<script, entry, pc, env, config, sms, email, user_result, issued, nextId>>

-----------------------------------------------------------------------------
(* A caller of the ACSConfiguration class *)

ConfigConstruct ==
    /\ entry = "config"
    /\ config = NoObject
    /\ \E vault \in Vaults : ACSConfiguration(vault)
    /\ UNCHANGED <<script, entry, pc, env, sms, email, chat, user_result, issued, nextId>>

-----------------------------------------------------------------------------
(* main(): the demo driver *)

\* config = ACSConfiguration(); return if the connection string is falsy
MainConfiguration ==
    /\ entry = "main"
    /\ pc = "start"
    /\ \E vault \in Vaults : ACSConfiguration(vault)
    /\ pc' = IF ~Truthy(config'.connection_string) THEN "halted" ELSE "sms"
    /\ UNCHANGED <<script, entry, env, sms, email, chat, user_result, issued, nextId>>

\* sms_service = SMSService(config.connection_string)
MainSMSService ==
    /\ entry = "main"
    /\ pc = "sms"
    /\ \E outcome \in ClientOutcomes("SmsClient") :
         /\ SMSService(config.connection_string, outcome)
         /\ pc' = IF outcome.kind = "raise" THEN "crashed" ELSE "email"
    /\ UNCHANGED <<script, entry, env, config, email, chat, user_result, issued, nextId>>

\* email_service = EmailService(config.connection_string)
MainEmailService ==
    /\ entry = "main"
    /\ pc = "email"
    /\ \E outcome \in ClientOutcomes("EmailClient") :
         /\ EmailService(config.connection_string, outcome)
         /\ pc' = IF outcome.kind = "raise" THEN "crashed" ELSE "chat"
    /\ UNCHANGED <<script, entry, env, config, sms, chat, user_result, issued, nextId>>

\* if config.endpoint: chat_service = ChatService(config.endpoint, config.connection_string)
MainChatService ==
    /\ entry = "main"
    /\ pc = "chat"
    /\ Truthy(config.endpoint)
    /\ \E outcome \in ClientOutcomes("CommunicationIdentityClient") :
         /\ ChatService(config.endpoint, config.connection_string, outcome)
         /\ pc' = IF outcome.kind = "raise" THEN "crashed" ELSE "user"
    /\ UNCHANGED <<script, entry, env, config, sms, email, user_result, issued, nextId>>

\* else: the chat demo is skipped
MainSkipChat ==
    /\ entry = "main"
    /\ pc = "chat"
    /\ ~Truthy(config.endpoint)
    /\ pc' = "done"
    /\ UNCHANGED <<script, entry, env, config, sms, email, chat, user_result, issued, nextId, last>>

\* user_result = chat_service.create_user_and_token()
MainCreateUserAndToken ==
    /\ entry = "main"
    /\ pc = "user"
    /\ \E outcome \in CreateUserOutcomes :
         LET r == create_user_and_token(chat, outcome)
         IN  /\ chat' = r.self
             /\ last' = Last("create_user_and_token", NoArgs, r.result, <<>>, FALSE, r.calls)
             /\ user_result' = r.result
             /\ issued' = IF r.result.success THEN issued \cup {r.result.token} ELSE issued
             /\ pc' = IF r.result.success THEN "init" ELSE "done"
    /\ UNCHANGED <<script, entry, env, config, sms, email, nextId>>

\* main() initializing the chat client without waiting for the token
MainInitializeChatClient_BeforeToken ==
    /\ entry = "main"
    /\ pc \in {"user", "init"}
    /\ \E outcome \in InitOutcomes :
         LET token == IF "token" \in DOMAIN user_result THEN user_result.token ELSE ""
             r == initialize_chat_client(chat, token, nextId, outcome)
         IN  /\ chat' = r.self
             /\ nextId' = IF r.raised THEN nextId ELSE nextId + 1
             /\ last' = Last("initialize_chat_client", [access_token |-> token], NoResult, <<>>, r.raised, r.calls)
             /\ pc' = IF r.raised THEN "crashed" ELSE "done"
    /\ UNCHANGED <<script, entry, env, config, sms, email, user_result, issued>>

\* if user_result["success"]: chat_service.initialize_chat_client(user_result["token"])
MainInitializeChatClient ==
    /\ entry = "main"
    /\ pc = "init"
    /\ \E outcome \in InitOutcomes :
         LET r == initialize_chat_client(chat, user_result.token, nextId, outcome)
         IN  /\ chat' = r.self
             /\ nextId' = IF r.raised THEN nextId ELSE nextId + 1
             /\ last' = Last("initialize_chat_client", [access_token |-> user_result.token], NoResult, <<>>, r.raised, r.calls)
             /\ pc' = IF r.raised THEN "crashed" ELSE "done"
    /\ UNCHANGED <<script, entry, env, config, sms, email, user_result, issued>>

-----------------------------------------------------------------------------
(* test_email.py: the test script *)

\* sys.argv: without and with the recipient
Argvs == {<<"test_email.py">>, <<"test_email.py", "user@example.com">>}

\* the script's state when another entry point runs, and before its import
NoScript == [argv |-> <<>>, connection_string |-> None, client |-> NoObject]

sender_domain == "ded12d28-4098-4503-9e93-c1ef110d16f1.azurecomm.net"

\* the message dictionary of send_test_email; the two literal bodies are abbreviated
TestEmailMessage(recipient_email) ==
    [senderAddress |-> "DoNotReply@" \o sender_domain,
     recipients |-> [to |-> <<[address |-> recipient_email]>>],
     content |-> [subject |-> "Azure Communication Services - Test Email",
                  plainText |-> "Hello! This is a test email from Azure Communication Services.",
                  html |-> "<html>This is a test email from Azure Communication Services.</html>"]]

\* what poller.result() can return to send_test_email: a dictionary with
\* both keys, with 'id' only, or with neither
TestEmailResults ==
    { [id |-> "em-1", status |-> "Succeeded"],
      [id |-> "em-3"],
      [keys |-> "dict"] }

TestEmailSendOutcomes ==
    {[begin_send |-> b, result |-> NotCalled] : b \in RaiseOutcomes}
      \cup {[begin_send |-> Returned("poller"), result |-> r] : r \in RaiseOutcomes \cup {Returned(x) : x \in TestEmailResults}}

\* what the SDK can do during send_test_email: the client constructor
\* returns or raises, then begin_send and poller.result()
TestEmailOutcomes ==
    {[client |-> c, send |-> [begin_send |-> NotCalled, result |-> NotCalled]] : c \in RaiseOutcomes}
      \cup {[client |-> Returned("EmailClient"), send |-> e] : e \in TestEmailSendOutcomes}

\* the lines send_test_email prints once the client exists: the two
\* announcements, then inside the try the success line before result['id']
\* and result['status'] are read, each read raising KeyError if the key is
\* missing, and the failure line of the except clause
TestEmailPrinted(recipient_email, send) ==
    LET announced == << "Sending test email to: " \o recipient_email, "   From: DoNotReply@" \o sender_domain >>
        failed(e) == "Failed to send email: " \o e
        result == send.result.value
    IN  IF send.begin_send.kind = "raise"
        THEN Append(announced, failed(send.begin_send.error))
        ELSE IF send.result.kind = "raise"
        THEN Append(announced, failed(send.result.error))
        ELSE IF "id" \notin DOMAIN result
        THEN announced \o << "Email sent successfully!", failed("'id'") >>
        ELSE IF "status" \notin DOMAIN result
        THEN announced \o << "Email sent successfully!", "   Message ID: " \o result.id, failed("'status'") >>
        ELSE announced \o << "Email sent successfully!", "   Message ID: " \o result.id, "   Status: " \o result.status >>

\* send_test_email with the check of the connection string left out
send_test_email_NoCheck(connection_string, recipient_email, outcome) ==
    LET construct == Call("EmailClient.from_connection_string", [connection_string |-> connection_string], outcome.client)
        begin == Call("EmailClient.begin_send", TestEmailMessage(recipient_email), outcome.send.begin_send)
        poll == Call("poller.result", NoArgs, outcome.send.result)
    IN  IF outcome.client.kind = "raise"
        THEN [client |-> NoObject, raised |-> TRUE, pc |-> "crashed", printed |-> <<>>, calls |-> <<construct>>]
        ELSE [client |-> [client |-> outcome.client.value], raised |-> FALSE, pc |-> "done",
              printed |-> TestEmailPrinted(recipient_email, outcome.send),
              calls |-> IF outcome.send.begin_send.kind = "raise" THEN <<construct, begin>> ELSE <<construct, begin, poll>>]

\* send_test_email: return at once if the connection string is falsy; the
\* client constructor is outside the try; begin_send, poller.result(), the
\* success line and the reads of result['id'] and result['status'] are inside it
send_test_email(connection_string, recipient_email, outcome) ==
    LET construct == Call("EmailClient.from_connection_string", [connection_string |-> connection_string], outcome.client)
        begin == Call("EmailClient.begin_send", TestEmailMessage(recipient_email), outcome.send.begin_send)
        poll == Call("poller.result", NoArgs, outcome.send.result)
    IN  IF ~Truthy(connection_string)
        THEN [client |-> NoObject, raised |-> FALSE, pc |-> "halted",
              printed |-> << "ACS_CONNECTION_STRING environment variable not set" >>, calls |-> <<>>]
        ELSE IF outcome.client.kind = "raise"
        THEN [client |-> NoObject, raised |-> TRUE, pc |-> "crashed", printed |-> <<>>, calls |-> <<construct>>]
        ELSE [client |-> [client |-> outcome.client.value], raised |-> FALSE, pc |-> "done",
              printed |-> TestEmailPrinted(recipient_email, outcome.send),
              calls |-> IF outcome.send.begin_send.kind = "raise" THEN <<construct, begin>> ELSE <<construct, begin, poll>>]

\* the module level: connection_string = os.environ.get("ACS_CONNECTION_STRING")
TestEmailImport ==
    /\ entry = "test_email"
    /\ pc = "import"
    /\ script' = [script EXCEPT !.connection_string = env.ACS_CONNECTION_STRING]
    /\ pc' = "argv"
    /\ UNCHANGED <<entry, env, config, sms, email, chat, user_result, issued, nextId, last>>

\* if len(sys.argv) < 2: print the usage and sys.exit(1)
TestEmailUsage ==
    /\ entry = "test_email"
    /\ pc = "argv"
    /\ Len(script.argv) < 2
    /\ pc' = "exit1"
    /\ UNCHANGED <<script, entry, env, config, sms, email, chat, user_result, issued, nextId, last>>

\* recipient = sys.argv[1]; send_test_email(recipient)
TestEmailSend ==
    /\ entry = "test_email"
    /\ pc = "argv"
    /\ Len(script.argv) >= 2
    /\ \E outcome \in TestEmailOutcomes :
         LET r == send_test_email(script.connection_string, script.argv[2], outcome)
         IN  /\ script' = [script EXCEPT !.client = r.client]
             /\ pc' = r.pc
             /\ last' = Last("send_test_email", [recipient_email |-> script.argv[2]], [printed |-> r.printed], <<>>,
                             r.raised, r.calls)
    /\ UNCHANGED <<entry, env, config, sms, email, chat, user_result, issued, nextId>>

-----------------------------------------------------------------------------

Init ==
    /\ entry \in {"main", "test_email", "config", "sms", "email", "chat"}
    /\ pc = CASE entry = "main" -> "start" [] entry = "test_email" -> "import" [] OTHER -> "caller"
    /\ env \in IF entry \in {"main", "test_email", "config"} THEN Environments ELSE {NoEnvironment}
    /\ script \in IF entry = "test_email" THEN {[NoScript EXCEPT !.argv = a] : a \in Argvs} ELSE {NoScript}
    /\ config = NoObject
    /\ sms = NoObject
    /\ email = NoObject
    /\ chat = NoObject
    /\ user_result = NoResult
    /\ issued = {}
    /\ nextId = 1
    /\ last = Last("start", NoArgs, NoResult, <<>>, FALSE, <<>>)

Next ==
    \/ ConfigConstruct
    \/ SmsConstruct
    \/ SmsSend
    \/ SmsSendBulk
    \/ EmailConstruct
    \/ EmailSend
    \/ EmailSendHtml
    \/ ChatConstruct
    \/ ChatCreateUserAndToken
    \/ ChatInitializeChatClient
    \/ ChatCreateChatThread
    \/ ChatSendMessage
    \/ ChatGetMessages
    \/ MainConfiguration
    \/ MainSMSService
    \/ MainEmailService
    \/ MainChatService
    \/ MainSkipChat
    \/ MainCreateUserAndToken
    \/ MainInitializeChatClient
    \/ TestEmailImport
    \/ TestEmailUsage
    \/ TestEmailSend

Spec == Init /\ [][Next]_vars

-----------------------------------------------------------------------------
(* Properties *)

WrapperOps == {"send_sms", "send_email", "send_html_email", "create_user_and_token",
               "create_chat_thread", "send_message", "get_messages"}

ThreadOps == {"create_chat_thread", "send_message", "get_messages"}

\* the last SDK call of the last operation raised
LastCallRaised == Len(last.calls) > 0 /\ last.calls[Len(last.calls)].outcome.kind = "raise"

Ready == chat # NoObject /\ chat.chat_client # NoClient

Min(a, b) == IF a <= b THEN a ELSE b

\* C1: every wrapper operation, in every session state and whether the SDK
\* call returns or raises, returns without raising an envelope whose
\* 'success' is a boolean and which has an 'error' field exactly when
\* success is false.
C1_Envelope ==
    last.op \in WrapperOps =>
        /\ ~last.raised
        /\ "success" \in DOMAIN last.result
        /\ last.result.success \in BOOLEAN
        /\ ("error" \in DOMAIN last.result) <=> (last.result.success = FALSE)

\* a wrapper operation whose SDK call raised and that returned the error envelope
C1_Witness ==
    /\ last.op = "get_messages"
    /\ Ready
    /\ LastCallRaised
    /\ last.result = [success |-> FALSE, error |-> "page request failed"]

\* C2: a thread or message operation called while chat_client is absent
\* returns exactly the "Chat client not initialized" envelope, calls nothing
\* in the SDK, does not raise, and changes no state.
C2_FailFast ==
    [][(last'.op \in ThreadOps /\ chat # NoObject /\ chat.chat_client = NoClient) =>
          /\ last'.result = NotInitialized
          /\ last'.calls = <<>>
          /\ ~last'.raised
          /\ UNCHANGED <<chat, config, sms, email, issued, nextId, user_result, env>>]_vars

\* a thread operation has just been refused on a session without a client
C2_Witness ==
    /\ last.op \in ThreadOps
    /\ chat # NoObject
    /\ chat.chat_client = NoClient
    /\ last.result = NotInitialized
    /\ issued # {}

\* C3: chat_client is absent after construction and until an
\* initialize_chat_client call completes, and once present it is never
\* absent again, whatever operation runs and whether or not it fails.
C3_NeverCleared ==
    [][/\ (chat = NoObject /\ chat' # NoObject) => chat'.chat_client = NoClient
       /\ (chat # NoObject) =>
            /\ chat' # NoObject
            /\ (chat.chat_client # NoClient) => (chat'.chat_client # NoClient)
            /\ (chat.chat_client = NoClient /\ chat'.chat_client # NoClient) =>
                  (last'.op = "initialize_chat_client" /\ ~last'.raised)]_vars

\* a failing operation has run on a ready session and the client is still there
C3_Witness ==
    /\ Ready
    /\ last.op \in ThreadOps \cup {"initialize_chat_client"}
    /\ LastCallRaised

\* C4 as stated: once chat_client is set no later call changes it.
C4_SetOnce ==
    [][Ready => chat'.chat_client = chat.chat_client]_vars

\* C4 amended: once chat_client is set, the only call that changes it is an
\* initialize_chat_client call that completes, made by a caller of the
\* class (main() calls it at most once); every other operation, and every
\* failing call, leaves it as it is.
C4_OnlyInitializeAssigns ==
    [][(Ready /\ chat'.chat_client # chat.chat_client) =>
          /\ last'.op = "initialize_chat_client"
          /\ ~last'.raised
          /\ entry = "chat"
          /\ chat'.chat_client # NoClient]_vars

\* the client has been replaced by a second initialize_chat_client and an
\* operation has then used the session
C4_Witness ==
    /\ Ready
    /\ chat.chat_client.id = 2
    /\ last.op \in ThreadOps
    /\ last.result.success

\* C5 as stated: the session is Client-Ready only with a token that
\* create_user_and_token issued.
C5_TokenFirst ==
    Ready => chat.chat_client.token \in issued

\* C5 amended: in main() the session becomes Client-Ready only after
\* create_user_and_token has succeeded, with the token of that envelope.
\* (The class itself keeps no such order: initialize_chat_client is callable
\* in every state with any token.)
C5_MainOrder ==
    (entry = "main" /\ Ready) =>
        /\ "success" \in DOMAIN user_result
        /\ user_result.success
        /\ chat.chat_client.token = user_result.token
        /\ chat.chat_client.token \in issued

\* main() has run to its end with the chat client initialized
C5_Witness ==
    /\ entry = "main"
    /\ pc = "done"
    /\ Ready

\* C6: send_bulk_sms returns one envelope per recipient, in the order of
\* to_numbers, the i-th being the envelope send_sms returns for to_numbers[i]
\* under the same transport outcome.
C6_BulkIsPointwise ==
    last.op = "send_bulk_sms" =>
        LET to_numbers == last.args.to_numbers
        IN  /\ Len(last.results) = Len(to_numbers)
            /\ \A i \in 1..Len(to_numbers) :
                 last.results[i] = send_sms(FromNumber, to_numbers[i], "Hello", TRUE, None, last.args.outcomes[i]).result

\* a bulk send to three recipients, the first failing and the later ones sent
C6_Witness ==
    /\ last.op = "send_bulk_sms"
    /\ Len(last.args.to_numbers) = 3
    /\ last.args.to_numbers[1] # last.args.to_numbers[2]
    /\ ~last.results[1].success
    /\ last.results[2].success
    /\ last.results[2].to = last.args.to_numbers[2]
    /\ last.results[3].success

\* C7: with ACS_CONNECTION_STRING set to a non-empty value, resolution
\* returns that value as the connection string and never calls the secret
\* store, whatever KEY_VAULT_URL is and whatever the store would do.
C7_EnvironmentFirst ==
    (config # NoObject /\ Truthy(env.ACS_CONNECTION_STRING)) =>
        /\ config.connection_string = env.ACS_CONNECTION_STRING
        /\ (last.op = "ACSConfiguration") => (last.calls = <<>> /\ ~last.raised)

\* resolution has run with the connection string and the vault URL both set
C7_Witness ==
    /\ last.op = "ACSConfiguration"
    /\ Truthy(env.ACS_CONNECTION_STRING)
    /\ Truthy(env.KEY_VAULT_URL)
    /\ config.connection_string = env.ACS_CONNECTION_STRING

\* C8 as stated: with ACS_CONNECTION_STRING absent and KEY_VAULT_URL not
\* set, both fields are absent after resolution.
C8_BothAbsent ==
    (last.op = "ACSConfiguration" /\ env.ACS_CONNECTION_STRING = None /\ env.KEY_VAULT_URL = None) =>
        /\ ~last.raised
        /\ config.connection_string = None
        /\ config.endpoint = None

\* C8 amended: with ACS_CONNECTION_STRING absent and KEY_VAULT_URL not set,
\* resolution does not raise, calls nothing, leaves the connection string
\* absent and returns as endpoint the value of ACS_ENDPOINT (absent exactly
\* when ACS_ENDPOINT is unset).
C8_EndpointFromEnvironment ==
    (last.op = "ACSConfiguration" /\ env.ACS_CONNECTION_STRING = None /\ env.KEY_VAULT_URL = None) =>
        /\ ~last.raised
        /\ last.calls = <<>>
        /\ config.connection_string = None
        /\ config.endpoint = env.ACS_ENDPOINT

\* resolution has run with only ACS_ENDPOINT set
C8_Witness ==
    /\ last.op = "ACSConfiguration"
    /\ env.ACS_CONNECTION_STRING = None
    /\ env.KEY_VAULT_URL = None
    /\ Truthy(env.ACS_ENDPOINT)
    /\ config.endpoint = env.ACS_ENDPOINT

\* C9: when the secret-store fallback is taken and a secret-store access
\* fails, resolution does not raise and the connection string is absent
\* (None or empty) afterwards.
C9_AbsentAfterVaultFailure ==
    (last.op = "ACSConfiguration" /\ LastCallRaised) =>
        /\ ~last.raised
        /\ ~Truthy(config.connection_string)

\* C10: on a ready session, when the collaborator's sequence of k messages
\* iterates without error, get_messages with max_messages = m returns a
\* success envelope whose messages are the first min(m, k) of the sequence,
\* in order, and whose count is their number.
C10_FirstMessages ==
    (last.op = "get_messages" /\ Ready /\ last.args.iterable /\ last.args.fail_at = 0) =>
        LET available == last.args.available
            n == Min(last.args.max_messages, Len(available))
        IN  /\ last.result.success
            /\ Len(last.result.messages) = n
            /\ \A i \in 1..n : last.result.messages[i] = MessageDict(available[i])
            /\ last.result.count = Len(last.result.messages)

\* three messages available, two asked for, the first two returned
C10_Witness ==
    /\ last.op = "get_messages"
    /\ Ready
    /\ last.args.iterable
    /\ last.args.fail_at = 0
    /\ Len(last.args.available) = 3
    /\ last.args.max_messages = 2
    /\ last.result.success
    /\ last.result.count = 2
    /\ last.result.messages[2].id = "msg-2"

\* C11: one send_bulk_sms call invokes the transport send exactly once per
\* element of to_numbers, one after the other in list order, without retry;
\* a send that fails for recipient i is followed by the sends for the
\* recipients after i.
C11_OneSendPerRecipient ==
    last.op = "send_bulk_sms" =>
        LET to_numbers == last.args.to_numbers
        IN  /\ Len(last.calls) = Len(to_numbers)
            /\ \A i \in 1..Len(last.calls) :
                 /\ last.calls[i].api = "SmsClient.send"
                 /\ last.calls[i].arg.to = to_numbers[i]
                 /\ last.calls[i].arg.from_ = FromNumber
                 /\ last.calls[i].outcome = last.args.outcomes[i]

\* a bulk send to the same number twice and then another one, the first two
\* sends raising: three sends were made, the third after the failures
C11_Witness ==
    /\ last.op = "send_bulk_sms"
    /\ Len(last.args.to_numbers) = 3
    /\ last.args.to_numbers[1] = last.args.to_numbers[2]
    /\ last.args.to_numbers[3] # last.args.to_numbers[2]
    /\ last.calls[1].outcome.kind = "raise"
    /\ last.calls[2].outcome.kind = "raise"
    /\ Len(last.calls) = 3
    /\ last.calls[3].outcome.kind = "return"
    /\ last.calls[3].arg.to = last.args.to_numbers[3]

\* the SDK calls that construct a client
ClientConstructors == {"SmsClient.from_connection_string", "EmailClient.from_connection_string",
                       "CommunicationIdentityClient.from_connection_string", "ChatClient"}

NoClientConstructed == \A i \in 1..Len(last.calls) : last.calls[i].api \notin ClientConstructors

\* C12: in main() and in the test script, when the connection string is
\* absent after resolution (None, or empty, which the code treats alike),
\* execution halts before any service wrapper or SDK client is constructed:
\* no wrapper or client ever exists alongside an absent connection string.
C12_HaltBeforeConstruction ==
    /\ (entry = "main" /\ config # NoObject /\ ~Truthy(config.connection_string)) =>
          /\ pc = "halted"
          /\ sms = NoObject
          /\ email = NoObject
          /\ chat = NoObject
          /\ last.op = "ACSConfiguration"
          /\ NoClientConstructed
    /\ (entry = "test_email" /\ pc # "import" /\ ~Truthy(script.connection_string)) =>
          /\ pc \in {"argv", "exit1", "halted"}
          /\ script.client = NoObject
          /\ NoClientConstructed

\* main() has halted after a Key Vault fallback that failed, with nothing constructed
C12_Witness ==
    /\ entry = "main"
    /\ pc = "halted"
    /\ config.connection_string = None
    /\ Truthy(env.KEY_VAULT_URL)
    /\ LastCallRaised
    /\ sms = NoObject

====
